---- MODULE Spec2Model ----
(***************************************************************************)
(* A model of the request handlers of veoco/ters: the role gates           *)
(* (users/extractors.rs), the user handlers (users/views.rs), the          *)
(* attachment handlers (attachments/views.rs) and the post handlers        *)
(* (posts/views.rs), over a store of users, contents and relationships.    *)
(* Every awaited store statement of a handler is one step of its request,  *)
(* so requests interleave the way the async runtime lets them.             *)
(***************************************************************************)
EXTENDS Integers, Sequences, FiniteSets, TLC

\* ------------------------------------------------------------ bounds

\* Highest user id of the store.
MaxUid == 2

\* Requests in flight at once, in the specifications about interleaving.
MaxReq == 2

\* Highest page and page size a request asks for.
MaxPage == 2

Uids == 1..MaxUid

Reqs == 1..MaxReq

\* The one request of the specifications that follow a single request
\* through its handler.
Solo == {r \in Reqs : \A s \in Reqs : r <= s}

\* ------------------------------------------------------------ values

\* The four group strings the gates know.
Groups == {"subscriber", "contributor", "editor", "administrator"}

\* The "group" column is free text: a value the gates do not know.
OtherGroups == {"visitor"}

AllGroups == Groups \cup OtherGroups

\* The group column of a uid without a row.
NoGroup == "<no row>"

\* User names, in their collation order.
NameList == <<"amy", "bob", "cat">>

Names == {NameList[i] : i \in 1..Len(NameList)}

NameRank(n) == IF n \in Names THEN CHOOSE i \in 1..Len(NameList) : NameList[i] = n ELSE 0

NoUserRow == [group |-> NoGroup, name |-> ""]

\* A bearer token after verification: absent, failing the signature or
\* expiry check, or valid for a subject.
Tokens ==
  {[kind |-> "absent", sub |-> 0], [kind |-> "invalid", sub |-> 0]}
    \cup {[kind |-> "valid", sub |-> u] : u \in Uids}

\* The identity of a request that resolved none.
NoUser == [uid |-> 0, group |-> NoGroup]

GateNames == {"PMSubscriber", "PMContributor", "PMEditor", "PMAdministrator", "none"}

\* Option<T>: None is the empty set, Some(v) is {v}.
None == {}

Some(v) == {v}

IsSome(o) == o # {}

Unwrap(o) == CHOOSE v \in o : TRUE

unwrap_or(o, d) == IF o = {} THEN d ELSE CHOOSE v \in o : TRUE

Min(a, b) == IF a <= b THEN a ELSE b

\* The ids of `ids` ordered by key[id] (descending when desc), rows of equal
\* key in id order.
RECURSIVE OrderedIds(_, _, _)
OrderedIds(ids, key, desc) ==
  IF ids = {} THEN <<>>
  ELSE LET first == CHOOSE i \in ids : \A j \in ids \ {i} :
                      \/ (IF desc THEN key[i] > key[j] ELSE key[i] < key[j])
                      \/ (key[i] = key[j] /\ i < j)
       IN <<first>> \o OrderedIds(ids \ {first}, key, desc)

\* Half of a u32: a u32 is the pair hi, lo of its 16-bit halves.
HalfWord == 65536

\* The full product of two 16-bit values, in halves.
Mul16(a, b) ==
  LET p == a * (b \div 256)
      low == (p % 256) * 256 + a * (b % 256)
  IN [hi |-> (p \div 256) + (low \div HalfWord), lo |-> low % HalfWord]

\* u32 `*`: the product modulo 2^32 and whether it overflowed, as
\* u32::overflowing_mul gives them.
overflowing_mul(a, b) ==
  LET ah == a \div HalfWord
      al == a % HalfWord
      bh == b \div HalfWord
      bl == b % HalfWord
      ll == Mul16(al, bl)
      hl == Mul16(ah, bl)
      lh == Mul16(al, bh)
      mid == ll.hi + hl.lo + lh.lo
  IN [hi |-> mid % HalfWord, lo |-> ll.lo,
      overflow |-> (ah * bh # 0) \/ hl.hi # 0 \/ lh.hi # 0 \/ mid >= HalfWord]

\* LIMIT ?1 OFFSET ?2 over an ordered result; offset is a u32 in halves.
LimitOffset(rows, limit, offset) ==
  LET skip == IF offset.hi = 0 THEN Min(offset.lo, Len(rows)) ELSE Len(rows)
  IN SubSeq(rows, skip + 1, Min(skip + limit, Len(rows)))

SeqToSet(s) == {s[i] : i \in DOMAIN s}

\* Highest content id of the store.
MaxCid == 2

Cids == 1..MaxCid

\* Files of the upload directory: one more than the rows that refer to one.
Paths == 1..(MaxCid + 1)

\* Content slugs, in their collation order.
SlugList == <<"about", "hello", "news", "zoo">>

Slugs == {SlugList[i] : i \in 1..Len(SlugList)}

SlugRank(g) == IF g \in Slugs THEN CHOOSE i \in 1..Len(SlugList) : SlugList[i] = g ELSE 0

\* A cid without a row in typecho_contents.  path is the file the row's text
\* names when it decodes as an AttachmentText, 0 when it does not.
NoContent == [type |-> "", authorId |-> 0, parent |-> 0, slug |-> "", path |-> 0]

\* users: the users table; contents: typecho_contents; rels:
\* typecho_relationships as (cid, mid) pairs; files: the upload directory;
\* reqs: the requests in flight; ro: the argument the attachments router was
\* built with.
VARIABLES users, contents, rels, files, reqs, ro

vars == <<users, contents, rels, files, reqs, ro>>

store == <<users, contents, rels, files>>

content_store == <<contents, rels, files>>

\* ------------------------------------------------------------ identity

\* utils::get_user: the token's subject, re-read from the users table.
get_user(token, table) ==
  IF token.kind # "valid" THEN [err |-> "Unauthenticated", user |-> NoUser]
  ELSE IF token.sub \notin DOMAIN table \/ table[token.sub] = NoUserRow
       THEN [err |-> "UserNotFound", user |-> NoUser]
       ELSE [err |-> "", user |-> [uid |-> token.sub, group |-> table[token.sub].group]]

\* extractors.rs: each gate matches the group string against its literals.
PMSubscriber(group) ==
  group \in {"subscriber", "contributor", "editor", "administrator"}

PMContributor(group) ==
  group \in {"contributor", "editor", "administrator"}

PMEditorLax(group) ==
  group \in {"contributor", "editor", "administrator"}

PMEditor(group) ==
  group \in {"editor", "administrator"}

PMAdministrator(group) ==
  group \in {"administrator"}

\* The extractor named in a handler's signature, applied to the resolved user.
GateAccepts(gate, group) ==
  CASE gate = "PMSubscriber" -> PMSubscriber(group)
    [] gate = "PMContributor" -> PMContributor(group)
    [] gate = "PMEditor" -> PMEditor(group)
    [] gate = "PMAdministrator" -> PMAdministrator(group)
    [] OTHER -> TRUE

\* ------------------------------------------------------------ requests

IdleReq ==
  [op |-> "idle", gate |-> "none", token |-> [kind |-> "absent", sub |-> 0],
   pc |-> "idle", user |-> NoUser, result |-> "", field |-> "", stmts |-> <<>>,
   uid |-> 0, group |-> "", name |-> "", password |-> FALSE,
   page |-> None, page_size |-> None, order_by |-> None,
   all_count |-> 0, sql_order |-> "", out |-> <<>>,
   cid |-> 0, slug |-> "", private |-> None, with_meta |-> None,
   scope |-> None, upload |-> FALSE, path |-> 0, author |-> 0, content |-> 0,
   method |-> "", route |-> ""]

NewReq(op, gate, token) ==
  [IdleReq EXCEPT !.op = op, !.gate = gate, !.token = token, !.pc = "extract"]

Finish(q, result, field) ==
  [q EXCEPT !.pc = "done", !.result = result, !.field = field]

\* A request to a handler whose signature names the extractor `gate`.
BeginGuarded(r) ==
  /\ reqs[r].pc = "idle"
  /\ \E gate \in GateNames \ {"none"}, token \in Tokens :
       reqs' = [reqs EXCEPT ![r] = NewReq("guarded", gate, token)]
  /\ UNCHANGED <<store, ro>>

\* from_request_parts: get_user, then the match on the group.
Extract(r) ==
  /\ reqs[r].pc = "extract"
  /\ LET q == reqs[r]
         got == get_user(q.token, users)
         seen == [q EXCEPT !.stmts = Append(@, "identity"), !.user = got.user]
     IN reqs' = [reqs EXCEPT ![r] =
          IF q.gate = "none" THEN [q EXCEPT !.pc = "handler"]
          ELSE IF got.err # "" THEN Finish(seen, got.err, "")
          ELSE IF ~GateAccepts(q.gate, got.user.group) THEN Finish(seen, "PermissionDeny", "")
          ELSE [seen EXCEPT !.pc = "handler"]]
  /\ UNCHANGED <<store, ro>>

\* The body of a handler that does nothing beyond its extractors.
GuardedBody(r) ==
  /\ reqs[r].pc = "handler"
  /\ reqs[r].op = "guarded"
  /\ reqs' = [reqs EXCEPT ![r] = Finish(@, "Ok", "")]
  /\ UNCHANGED <<store, ro>>

\* The response is sent and the request's state dropped.
Retire(r) ==
  /\ reqs[r].pc = "done"
  /\ reqs' = [reqs EXCEPT ![r] = IdleReq]
  /\ UNCHANGED <<store, ro>>

\* Every uid has no row or a row of any group; names are unique.
InitUsers ==
  \E g \in [Uids -> AllGroups \cup {NoGroup}] :
    users = [u \in Uids |-> IF g[u] = NoGroup THEN NoUserRow
                                            ELSE [group |-> g[u], name |-> NameList[u]]]

\* No content rows and no files.
InitNoContents ==
  /\ contents = [c \in Cids |-> NoContent]
  /\ rels = {}
  /\ files = {}

InitGate ==
  /\ InitUsers
  /\ InitNoContents
  /\ reqs = [r \in Reqs |-> IdleReq]
  /\ ro = FALSE

NextGate ==
  \E r \in Solo : BeginGuarded(r) \/ Extract(r) \/ GuardedBody(r) \/ Retire(r)

SpecGate == InitGate /\ [][NextGate]_vars

\* ------------------------------------------------------------ users

\* q.page.unwrap_or(1) and q.page_size.unwrap_or(10).
DefaultPage == 1

DefaultPageSize == 10

\* let offset = (page - 1) * page_size; on u32, which wraps where the build
\* does not check overflow.
Offset(page, page_size) == overflowing_mul(page - 1, page_size)

\* Order keys a client sends: the whitelisted ones of every resource and
\* strings that are in no whitelist.
OrderKeys ==
  {"uid", "-uid", "name", "-name", "mail", "-mail", "cid", "malicious; DROP TABLE"}

\* The fragment of a match arm that rejects the key.
NoFragment == ""

\* list_users: match order_by.as_str() { ... f => return Err(InvalidParams(f)) }
UserOrderSql(key) ==
  CASE key = "uid" -> "uid"
    [] key = "-uid" -> "uid DESC"
    [] key = "name" -> "name"
    [] key = "-name" -> "name DESC"
    [] key = "mail" -> "mail"
    [] key = "-mail" -> "mail DESC"
    [] OTHER -> NoFragment

UserRows(table) == {u \in DOMAIN table : table[u] # NoUserRow}

\* SELECT * FROM users ORDER BY users.<fragment>; the mail column holds the
\* name in every modelled row.
SelectUsers(table, fragment) ==
  LET byUid == [u \in UserRows(table) |-> u]
      byName == [u \in UserRows(table) |-> NameRank(table[u].name)]
  IN CASE fragment = "uid" -> OrderedIds(UserRows(table), byUid, FALSE)
       [] fragment = "uid DESC" -> OrderedIds(UserRows(table), byUid, TRUE)
       [] fragment \in {"name", "mail"} -> OrderedIds(UserRows(table), byName, FALSE)
       [] fragment \in {"name DESC", "mail DESC"} -> OrderedIds(UserRows(table), byName, TRUE)

\* The users table's unique index on name (and mail).
NameTaken(table, name, except) ==
  \E u \in UserRows(table) \ except : table[u].name = name

NextUid(table) ==
  IF UserRows(table) = {} THEN 1
  ELSE 1 + (CHOOSE u \in UserRows(table) : \A v \in UserRows(table) : v <= u)

BeginRegister(r) ==
  /\ reqs[r].pc = "idle"
  /\ \E name \in Names :
       reqs' = [reqs EXCEPT ![r] =
         [NewReq("register", "none", IdleReq.token) EXCEPT !.name = name, !.pc = "handler"]]
  /\ UNCHANGED <<store, ro>>

\* register: one INSERT with the literal group 'subscriber'; any failure of
\* it is answered AlreadyExist("name or mail").
RegisterGroup == "subscriber"

Register(r) ==
  /\ reqs[r].pc = "handler"
  /\ reqs[r].op = "register"
  /\ LET q == [reqs[r] EXCEPT !.stmts = Append(@, "insert")]
         uid == NextUid(users)
     IN \E ok \in BOOLEAN :
          IF ok /\ ~NameTaken(users, q.name, {})
          THEN /\ uid <= MaxUid
               /\ users' = [users EXCEPT ![uid] = [group |-> RegisterGroup, name |-> q.name]]
               /\ reqs' = [reqs EXCEPT ![r] = Finish([q EXCEPT !.out = <<uid>>], "Ok", "")]
          ELSE /\ users' = users
               /\ reqs' = [reqs EXCEPT ![r] = Finish(q, "AlreadyExist", "name or mail")]
  /\ UNCHANGED <<content_store, ro>>

BeginListUsers(r) ==
  /\ reqs[r].pc = "idle"
  /\ \E token \in Tokens, page \in {None} \cup {Some(p) : p \in 1..MaxPage},
        page_size \in {None} \cup {Some(p) : p \in 1..MaxPage},
        order_by \in {None} \cup {Some(k) : k \in OrderKeys} :
       reqs' = [reqs EXCEPT ![r] =
         [NewReq("list_users", "PMAdministrator", token) EXCEPT
            !.page = page, !.page_size = page_size, !.order_by = order_by]]
  /\ UNCHANGED <<store, ro>>

\* list_users up to its second statement: the COUNT(*) query, whose failure
\* counts as 0, the offset, which panics on overflow in a build that checks
\* it, and then the match on the order key.
ListUsersCount(r) ==
  /\ reqs[r].pc = "handler"
  /\ reqs[r].op = "list_users"
  /\ \E ok \in BOOLEAN, overflow_checks \in BOOLEAN :
       LET q == [reqs[r] EXCEPT !.stmts = Append(@, "count"),
                                !.all_count = IF ok THEN Cardinality(UserRows(users)) ELSE 0]
           offset == Offset(unwrap_or(q.page, DefaultPage),
                            unwrap_or(q.page_size, DefaultPageSize))
           order_by == unwrap_or(q.order_by, "-uid")
       IN reqs' = [reqs EXCEPT ![r] =
            IF offset.overflow /\ overflow_checks THEN Finish(q, "Panic", "")
            ELSE IF UserOrderSql(order_by) = NoFragment
            THEN Finish(q, "InvalidParams", order_by)
            ELSE [q EXCEPT !.pc = "list", !.sql_order = UserOrderSql(order_by)]]
  /\ UNCHANGED <<store, ro>>

\* list_users: the SELECT ... ORDER BY {fragment} LIMIT ?1 OFFSET ?2.
ListUsersFetch(r) ==
  /\ reqs[r].pc = "list"
  /\ reqs[r].op = "list_users"
  /\ \E ok \in BOOLEAN :
       LET q == [reqs[r] EXCEPT !.stmts = Append(@, "list")]
           page == unwrap_or(q.page, DefaultPage)
           page_size == unwrap_or(q.page_size, DefaultPageSize)
           rows == LimitOffset(SelectUsers(users, q.sql_order), page_size,
                               Offset(page, page_size))
       IN reqs' = [reqs EXCEPT ![r] =
            IF ok THEN Finish([q EXCEPT !.out = rows], "Ok", "")
            ELSE Finish(q, "DatabaseFailed", "")]
  /\ UNCHANGED <<store, ro>>

BeginGetUser(r) ==
  /\ reqs[r].pc = "idle"
  /\ \E token \in Tokens, uid \in Uids :
       reqs' = [reqs EXCEPT ![r] =
         [NewReq("get_user_by_id", "PMSubscriber", token) EXCEPT !.uid = uid]]
  /\ UNCHANGED <<store, ro>>

\* get_user_by_id: the two tests ahead of the query.
GetUserRouteLax(user, uid) ==
  IF user.uid = uid THEN "self"
  ELSE IF user.group \in {"editor", "administrator"} THEN "query"
  ELSE "deny"

GetUserRoute(user, uid) ==
  IF user.uid = uid THEN "self"
  ELSE IF user.group = "administrator" THEN "query"
  ELSE "deny"

GetUserById(r) ==
  /\ reqs[r].pc = "handler"
  /\ reqs[r].op = "get_user_by_id"
  /\ LET q == reqs[r]
         route == GetUserRoute(q.user, q.uid)
         asked == [q EXCEPT !.stmts = Append(@, "user")]
     IN \E ok \in BOOLEAN :
          reqs' = [reqs EXCEPT ![r] =
            CASE route = "self" -> Finish([q EXCEPT !.out = <<q.user.uid>>], "Ok", "")
              [] route = "deny" -> Finish(q, "PermissionDeny", "")
              [] OTHER -> IF ok /\ q.uid \in UserRows(users)
                          THEN Finish([asked EXCEPT !.out = <<q.uid>>], "Ok", "")
                          ELSE Finish(asked, "InvalidParams", "uid")]
  /\ UNCHANGED <<store, ro>>

BeginModifyUser(r) ==
  /\ reqs[r].pc = "idle"
  /\ \E token \in Tokens, uid \in Uids, group \in AllGroups, name \in Names,
        password \in BOOLEAN :
       reqs' = [reqs EXCEPT ![r] =
         [NewReq("modify_user_by_id", "PMSubscriber", token) EXCEPT
            !.uid = uid, !.group = group, !.name = name, !.password = password]]
  /\ UNCHANGED <<store, ro>>

\* modify_user_by_id: the condition its whole body is under.
ModifyUserAllowedLax(user, uid, group) ==
  user.uid = uid \/ user.group = "administrator"

ModifyUserAllowed(user, uid, group) ==
  (user.uid = uid /\ user.group = group) \/ user.group = "administrator"

\* modify_user_by_id up to its second statement: the condition, the match on
\* the requested group and the EXISTS query, whose failure counts as false.
ModifyUserExists(r) ==
  /\ reqs[r].pc = "handler"
  /\ reqs[r].op = "modify_user_by_id"
  /\ LET q == reqs[r]
         asked == [q EXCEPT !.stmts = Append(@, "exists")]
     IN \E ok \in BOOLEAN :
          reqs' = [reqs EXCEPT ![r] =
            IF ~ModifyUserAllowed(q.user, q.uid, q.group) THEN Finish(q, "PermissionDeny", "")
            ELSE IF q.group \notin {"subscriber", "contributor", "editor", "administrator"}
                 THEN Finish(q, "InvalidParams", "group")
            ELSE IF ok /\ q.uid \in UserRows(users) THEN [asked EXCEPT !.pc = "update"]
            ELSE Finish(asked, "InvalidParams", "uid")]
  /\ UNCHANGED <<store, ro>>

\* modify_user_by_id: the UPDATE of the profile (group included) when no
\* password is sent, of the password otherwise; a failed UPDATE falls
\* through to InvalidParams("uid").
ModifyUserUpdate(r) ==
  /\ reqs[r].pc = "update"
  /\ reqs[r].op = "modify_user_by_id"
  /\ LET q == [reqs[r] EXCEPT !.stmts = Append(@, "update")]
     IN \E ok \in BOOLEAN :
          IF ok /\ (q.password \/ ~NameTaken(users, q.name, {q.uid}))
          THEN /\ users' = IF q.password \/ q.uid \notin UserRows(users) THEN users
                           ELSE [users EXCEPT ![q.uid] = [group |-> q.group, name |-> q.name]]
               /\ reqs' = [reqs EXCEPT ![r] = Finish(q, "Ok", "")]
          ELSE /\ users' = users
               /\ reqs' = [reqs EXCEPT ![r] = Finish(q, "InvalidParams", "uid")]
  /\ UNCHANGED <<content_store, ro>>

InitUsersSpec ==
  /\ InitUsers
  /\ InitNoContents
  /\ reqs = [r \in Reqs |-> IdleReq]
  /\ ro = FALSE

NextUsers ==
  \E r \in Solo :
    \/ BeginRegister(r) \/ Register(r)
    \/ BeginListUsers(r) \/ ListUsersCount(r) \/ ListUsersFetch(r)
    \/ BeginGetUser(r) \/ GetUserById(r)
    \/ BeginModifyUser(r) \/ ModifyUserExists(r) \/ ModifyUserUpdate(r)
    \/ Extract(r) \/ Retire(r)

SpecUsers == InitUsersSpec /\ [][NextUsers]_vars

\* A modify_user_by_id request that asks for a group and leaves the name of
\* the target as it is.
BeginModifyGroup(r) ==
  /\ reqs[r].pc = "idle"
  /\ \E token \in Tokens, uid \in Uids, group \in Groups :
       reqs' = [reqs EXCEPT ![r] =
         [NewReq("modify_user_by_id", "PMSubscriber", token) EXCEPT
            !.uid = uid, !.group = group, !.name = NameList[uid]]]
  /\ UNCHANGED <<store, ro>>

\* The first user is an administrator, the others are editors.
InitUserRace ==
  /\ users = [u \in Uids |->
       [group |-> IF u = 1 THEN "administrator" ELSE "editor", name |-> NameList[u]]]
  /\ InitNoContents
  /\ reqs = [r \in Reqs |-> IdleReq]
  /\ ro = FALSE

\* Concurrent modify_user_by_id requests, one of each request slot.
NextUserRace ==
  \E r \in Reqs :
    \/ BeginModifyGroup(r) \/ ModifyUserExists(r) \/ ModifyUserUpdate(r)
    \/ Extract(r)

SpecUserRace == InitUserRace /\ [][NextUserRace]_vars

\* ------------------------------------------------------------ attachments

\* The tokens of the requests to the handlers of contents.
ActorTokens == {t \in Tokens : t.kind # "invalid"}

\* The order keys of the requests that list contents.
ContentOrderKeys == {"cid", "-cid", "slug", "-slug", "uid", "malicious; DROP TABLE"}

ContentRows(table) == {c \in DOMAIN table : table[c] # NoContent}

\* AttachmentsQuery's validate(): page and page_size at least 1, order_by of
\* 1 to 13 characters.
AttachmentsQueryValid(page, page_size, order_by) ==
  /\ IsSome(page) => Unwrap(page) >= 1
  /\ IsSome(page_size) => Unwrap(page_size) >= 1
  /\ IsSome(order_by) => (Len(Unwrap(order_by)) >= 1 /\ Len(Unwrap(order_by)) <= 13)

\* list_attachments: let private = q.private.unwrap_or(false) && (editor || administrator)
ListPrivateLax(private, group) ==
  unwrap_or(private, FALSE)

ListPrivate(private, group) ==
  unwrap_or(private, FALSE) /\ (group = "editor" \/ group = "administrator")

\* private_sql: empty, or the clause AND "authorId" = {uid}; here the uid the
\* clause names, if any.
PrivateSql(private, uid) == IF private THEN None ELSE Some(uid)

\* list_attachments: match order_by.as_str() { ... f => return Err(InvalidParams(f)) }
AttachmentOrderSql(key) ==
  CASE key = "cid" -> "cid"
    [] key = "-cid" -> "cid DESC"
    [] key = "slug" -> "slug"
    [] key = "-slug" -> "slug DESC"
    [] OTHER -> NoFragment

\* The rows of one type that the clause of private_sql keeps.
ScopedRows(table, scope, type) ==
  {c \in ContentRows(table) :
     table[c].type = type /\ (IsSome(scope) => table[c].authorId = Unwrap(scope))}

\* common_db::get_contents_count_with_private
get_contents_count_with_private(table, scope, type) ==
  Cardinality(ScopedRows(table, scope, type))

\* SELECT over typecho_contents ordered by a whitelisted fragment.
SelectContents(table, ids, fragment) ==
  LET byCid == [c \in ids |-> c]
      bySlug == [c \in ids |-> SlugRank(table[c].slug)]
  IN CASE fragment = "cid" -> OrderedIds(ids, byCid, FALSE)
       [] fragment = "cid DESC" -> OrderedIds(ids, byCid, TRUE)
       [] fragment = "slug" -> OrderedIds(ids, bySlug, FALSE)
       [] fragment = "slug DESC" -> OrderedIds(ids, bySlug, TRUE)

\* db::get_attachments_by_list_query
get_attachments_by_list_query(table, scope, page_size, offset, fragment) ==
  LimitOffset(SelectContents(table, ScopedRows(table, scope, "attachment"), fragment),
              page_size, offset)

\* The authorId of the row a handler holds after get_content_by_cid, 0 when
\* there is no row.
AuthorOf(table, cid) == IF cid \in ContentRows(table) THEN table[cid].authorId ELSE 0

\* common_db::get_content_by_cid: the row of that cid, of whatever type.
get_content_by_cid(table, cid) ==
  IF cid \in ContentRows(table) THEN Some(cid) ELSE None

BeginListAttachments(r) ==
  /\ reqs[r].pc = "idle"
  /\ \E token \in ActorTokens, page \in {None} \cup {Some(p) : p \in 0..MaxPage},
        page_size \in {None} \cup {Some(p) : p \in 0..MaxPage},
        order_by \in {None} \cup {Some(k) : k \in ContentOrderKeys},
        private \in {None, Some(TRUE), Some(FALSE)} :
       reqs' = [reqs EXCEPT ![r] =
         [NewReq("list_attachments", "PMContributor", token) EXCEPT
            !.page = page, !.page_size = page_size, !.order_by = order_by,
            !.private = private]]
  /\ UNCHANGED <<store, ro>>

\* list_attachments up to its second statement: the query's validation,
\* private_sql, the count query, the offset, which panics on overflow in a
\* build that checks it, and then the match on the order key.
ListAttachmentsCount(r) ==
  /\ reqs[r].pc = "handler"
  /\ reqs[r].op = "list_attachments"
  /\ \E overflow_checks \in BOOLEAN :
       LET q0 == reqs[r]
           private == ListPrivate(q0.private, q0.user.group)
           scope == PrivateSql(private, q0.user.uid)
           q == [q0 EXCEPT !.scope = scope, !.stmts = Append(@, "count"),
                           !.all_count = get_contents_count_with_private(contents, scope, "attachment")]
           offset == Offset(unwrap_or(q.page, DefaultPage),
                            unwrap_or(q.page_size, DefaultPageSize))
           order_by == unwrap_or(q.order_by, "-cid")
       IN reqs' = [reqs EXCEPT ![r] =
            IF ~AttachmentsQueryValid(q0.page, q0.page_size, q0.order_by)
            THEN Finish(q0, "ValidateRequestError", "")
            ELSE IF offset.overflow /\ overflow_checks THEN Finish(q, "Panic", "")
            ELSE IF AttachmentOrderSql(order_by) = NoFragment
            THEN Finish(q, "InvalidParams", order_by)
            ELSE [q EXCEPT !.pc = "list", !.sql_order = AttachmentOrderSql(order_by)]]
  /\ UNCHANGED <<store, ro>>

\* list_attachments: the list query, whose error is the handler's error.
ListAttachmentsFetch(r) ==
  /\ reqs[r].pc = "list"
  /\ reqs[r].op = "list_attachments"
  /\ \E ok \in BOOLEAN :
       LET q == [reqs[r] EXCEPT !.stmts = Append(@, "list")]
           page == unwrap_or(q.page, DefaultPage)
           page_size == unwrap_or(q.page_size, DefaultPageSize)
           rows == get_attachments_by_list_query(contents, q.scope, page_size,
                                                 Offset(page, page_size), q.sql_order)
       IN reqs' = [reqs EXCEPT ![r] =
            IF ok THEN Finish([q EXCEPT !.out = rows], "Ok", "")
            ELSE Finish(q, "DatabaseFailed", "")]
  /\ UNCHANGED <<store, ro>>

BeginGetAttachment(r) ==
  /\ reqs[r].pc = "idle"
  /\ \E token \in ActorTokens, cid \in Cids :
       reqs' = [reqs EXCEPT ![r] =
         [NewReq("get_attachment_by_cid", "PMContributor", token) EXCEPT !.cid = cid]]
  /\ UNCHANGED <<store, ro>>

\* get_attachment_by_cid: admin, and the test that denies.
GetAttachmentAllowedLax(user, authorId) ==
  user.uid = authorId \/ user.group \in {"contributor", "editor", "administrator"}

GetAttachmentAllowed(user, authorId) ==
  LET admin == user.group = "editor" \/ user.group = "administrator"
  IN ~(user.uid # authorId /\ ~admin)

GetAttachmentByCid(r) ==
  /\ reqs[r].pc = "handler"
  /\ reqs[r].op = "get_attachment_by_cid"
  /\ LET q == [reqs[r] EXCEPT !.stmts = Append(@, "content"),
                               !.author = AuthorOf(contents, reqs[r].cid)]
         attachment == get_content_by_cid(contents, q.cid)
     IN reqs' = [reqs EXCEPT ![r] =
          IF attachment = None THEN Finish(q, "NotFound", "cid")
          ELSE IF ~GetAttachmentAllowed(q.user, q.author)
          THEN Finish(q, "PermissionDeny", "")
          ELSE Finish([q EXCEPT !.out = <<q.cid>>], "Ok", "")]
  /\ UNCHANGED <<store, ro>>

BeginModifyAttachment(r) ==
  /\ reqs[r].pc = "idle"
  /\ \E token \in ActorTokens, cid \in Cids, upload \in BOOLEAN :
       reqs' = [reqs EXCEPT ![r] =
         [NewReq("modify_attachment_by_cid", "PMContributor", token) EXCEPT
            !.cid = cid, !.upload = upload]]
  /\ UNCHANGED <<store, ro>>

\* modify_attachment_by_cid: admin, and the test that denies.
ModifyAttachmentAllowed(user, authorId) ==
  LET admin == user.group = "editor" \/ user.group = "administrator"
  IN ~(user.uid # authorId /\ ~admin)

\* modify_attachment_by_cid up to delete_file: the row, the ownership test
\* and the decoding of the row's text.
ModifyAttachmentFetch(r) ==
  /\ reqs[r].pc = "handler"
  /\ reqs[r].op = "modify_attachment_by_cid"
  /\ LET q == [reqs[r] EXCEPT !.stmts = Append(@, "content"),
                               !.author = AuthorOf(contents, reqs[r].cid)]
         exist_attachment == get_content_by_cid(contents, q.cid)
     IN reqs' = [reqs EXCEPT ![r] =
          IF exist_attachment = None THEN Finish(q, "NotFound", "cid")
          ELSE IF ~ModifyAttachmentAllowed(q.user, q.author)
          THEN Finish(q, "PermissionDeny", "")
          ELSE IF contents[q.cid].path = 0
          THEN Finish(q, "DatabaseFailed", "attachment decode error")
          ELSE [q EXCEPT !.pc = "unlink", !.path = contents[q.cid].path]]
  /\ UNCHANGED <<store, ro>>

\* modify_attachment_by_cid: delete_file of the old file, its result dropped,
\* and then the reading of the multipart field, which a request without a
\* well-formed file field fails with InvalidParams("file").
ModifyAttachmentUnlink(r) ==
  /\ reqs[r].pc = "unlink"
  /\ reqs[r].op = "modify_attachment_by_cid"
  /\ LET q == [reqs[r] EXCEPT !.stmts = Append(@, "delete_file")]
     IN /\ files' = files \ {q.path}
        /\ reqs' = [reqs EXCEPT ![r] =
             IF ~q.upload THEN Finish(q, "InvalidParams", "file")
             ELSE [q EXCEPT !.pc = "write"]]
  /\ UNCHANGED <<users, contents, rels, ro>>

\* The paths some row names.
NamedPaths(table) == {table[c].path : c \in ContentRows(table)}

\* modify_attachment_by_cid: stream_to_file under a new random name.
ModifyAttachmentWrite(r) ==
  /\ reqs[r].pc = "write"
  /\ reqs[r].op = "modify_attachment_by_cid"
  /\ LET q == [reqs[r] EXCEPT !.stmts = Append(@, "stream_to_file")]
     IN \E ok \in BOOLEAN :
          IF ok
          THEN \E name \in Paths \ (files \cup NamedPaths(contents)) :
                 /\ files' = files \cup {name}
                 /\ reqs' = [reqs EXCEPT ![r] = [q EXCEPT !.pc = "save", !.path = name]]
          ELSE /\ files' = files
               /\ reqs' = [reqs EXCEPT ![r] = Finish(q, "UploadFailed", "")]
  /\ UNCHANGED <<users, contents, rels, ro>>

\* modify_attachment_by_cid: db::modify_attachment_by_cid_with_params.
ModifyAttachmentSave(r) ==
  /\ reqs[r].pc = "save"
  /\ reqs[r].op = "modify_attachment_by_cid"
  /\ LET q == [reqs[r] EXCEPT !.stmts = Append(@, "update")]
     IN \E ok \in BOOLEAN :
          IF ok
          THEN /\ contents' = IF q.cid \in ContentRows(contents)
                              THEN [contents EXCEPT ![q.cid].path = q.path]
                              ELSE contents
               /\ reqs' = [reqs EXCEPT ![r] = Finish(q, "Ok", "")]
          ELSE /\ contents' = contents
               /\ reqs' = [reqs EXCEPT ![r] = Finish(q, "DatabaseFailed", "")]
  /\ UNCHANGED <<users, rels, files, ro>>

BeginDeleteAttachment(r) ==
  /\ reqs[r].pc = "idle"
  /\ \E token \in ActorTokens, cid \in Cids :
       reqs' = [reqs EXCEPT ![r] =
         [NewReq("delete_attachment_by_cid", "PMContributor", token) EXCEPT !.cid = cid]]
  /\ UNCHANGED <<store, ro>>

\* delete_attachment_by_cid: admin, and the test that denies.
DeleteAttachmentAllowed(user, authorId) ==
  LET admin == user.group = "editor" \/ user.group = "administrator"
  IN ~(user.uid # authorId /\ ~admin)

\* delete_attachment_by_cid up to delete_file.
DeleteAttachmentFetch(r) ==
  /\ reqs[r].pc = "handler"
  /\ reqs[r].op = "delete_attachment_by_cid"
  /\ LET q == [reqs[r] EXCEPT !.stmts = Append(@, "content"),
                               !.author = AuthorOf(contents, reqs[r].cid)]
         attachment == get_content_by_cid(contents, q.cid)
     IN reqs' = [reqs EXCEPT ![r] =
          IF attachment = None THEN Finish(q, "InvalidParams", "cid")
          ELSE IF ~DeleteAttachmentAllowed(q.user, q.author)
          THEN Finish(q, "PermissionDeny", "")
          ELSE IF contents[q.cid].path = 0
          THEN Finish(q, "DatabaseFailed", "attachment decode error")
          ELSE [q EXCEPT !.pc = "unlink", !.path = contents[q.cid].path]]
  /\ UNCHANGED <<store, ro>>

\* delete_attachment_by_cid: delete_file, its result dropped.
DeleteAttachmentUnlink(r) ==
  /\ reqs[r].pc = "unlink"
  /\ reqs[r].op = "delete_attachment_by_cid"
  /\ files' = files \ {reqs[r].path}
  /\ reqs' = [reqs EXCEPT ![r] = [@ EXCEPT !.stmts = Append(@, "delete_file"), !.pc = "delete"]]
  /\ UNCHANGED <<users, contents, rels, ro>>

\* delete_attachment_by_cid: common_db::delete_content_by_cid.
DeleteAttachmentRow(r) ==
  /\ reqs[r].pc = "delete"
  /\ reqs[r].op = "delete_attachment_by_cid"
  /\ LET q == [reqs[r] EXCEPT !.stmts = Append(@, "delete")]
     IN \E ok \in BOOLEAN :
          IF ok
          THEN /\ contents' = [contents EXCEPT ![q.cid] = NoContent]
               /\ reqs' = [reqs EXCEPT ![r] = Finish(q, "Ok", "")]
          ELSE /\ contents' = contents
               /\ reqs' = [reqs EXCEPT ![r] = Finish(q, "DatabaseFailed", "")]
  /\ UNCHANGED <<users, rels, files, ro>>

\* The authors of the rows the store starts with: the first user, whose
\* group varies, and the last, a contributor.  A handler compares a row's
\* author with nothing but the actor's uid.
Authors == {u \in Uids : (\A v \in Uids : u <= v) \/ (\A v \in Uids : v <= u)}

\* Every cid has no row, an attachment of an author whose file is stored
\* under the cid's own name, or a post of the first user.
InitAttachments ==
  /\ \E kind \in [Cids -> {[type |-> "", authorId |-> 0], [type |-> "post", authorId |-> 1]}
                           \cup {[type |-> "attachment", authorId |-> u] : u \in Authors}] :
       contents = [c \in Cids |->
         IF kind[c].type = "" THEN NoContent
         ELSE [type |-> kind[c].type, authorId |-> kind[c].authorId, parent |-> 0,
               slug |-> SlugList[MaxCid + 1 - c],
               path |-> IF kind[c].type = "attachment" THEN c ELSE 0]]
  /\ rels = {}
  /\ files = {contents[c].path : c \in {d \in Cids : contents[d].type = "attachment"}}

\* The first user has no row or a row of any group, the other users are
\* contributors: the handlers of contents read no user but the actor.
InitActor ==
  \E g \in AllGroups \cup {NoGroup} :
    users = [u \in Uids |->
      IF u = 1 THEN (IF g = NoGroup THEN NoUserRow ELSE [group |-> g, name |-> NameList[u]])
      ELSE [group |-> "contributor", name |-> NameList[u]]]

InitAttach ==
  /\ InitActor
  /\ InitAttachments
  /\ reqs = [r \in Reqs |-> IdleReq]
  /\ ro = FALSE

NextAttachList ==
  \E r \in Solo :
    \/ BeginListAttachments(r) \/ ListAttachmentsCount(r) \/ ListAttachmentsFetch(r)
    \/ Extract(r) \/ Retire(r)

\* The listing of attachments, which changes no row, from every store.
SpecAttachList == InitAttach /\ [][NextAttachList]_vars

NextAttach ==
  \E r \in Solo :
    \/ BeginGetAttachment(r) \/ GetAttachmentByCid(r)
    \/ BeginModifyAttachment(r) \/ ModifyAttachmentFetch(r) \/ ModifyAttachmentUnlink(r)
    \/ ModifyAttachmentWrite(r) \/ ModifyAttachmentSave(r)
    \/ BeginDeleteAttachment(r) \/ DeleteAttachmentFetch(r) \/ DeleteAttachmentUnlink(r)
    \/ DeleteAttachmentRow(r)
    \/ Extract(r) \/ Retire(r)

SpecAttach == InitAttach /\ [][NextAttach]_vars

\* common_db::get_content_by_slug: the row of that slug, of whatever type.
get_content_by_slug(table, slug) ==
  {c \in ContentRows(table) : table[c].slug = slug}

\* db::modify_attachment_parent_by_cid
modify_attachment_parent_by_cid(table, cid, parent) ==
  IF cid \in ContentRows(table) THEN [table EXCEPT ![cid].parent = parent] ELSE table

BeginAddParent(r) ==
  /\ reqs[r].pc = "idle"
  /\ \E token \in ActorTokens, slug \in Slugs, cid \in Cids :
       reqs' = [reqs EXCEPT ![r] =
         [NewReq("add_attachment_to_content_by_cid", "PMContributor", token) EXCEPT
            !.slug = slug, !.cid = cid]]
  /\ UNCHANGED <<store, ro>>

\* add_attachment_to_content_by_cid: the row of the attachment.
AddParentFetch(r) ==
  /\ reqs[r].pc = "handler"
  /\ reqs[r].op = "add_attachment_to_content_by_cid"
  /\ LET q == [reqs[r] EXCEPT !.stmts = Append(@, "content"),
                               !.author = AuthorOf(contents, reqs[r].cid)]
         attachment == get_content_by_cid(contents, q.cid)
     IN reqs' = [reqs EXCEPT ![r] =
          IF attachment = None THEN Finish(q, "InvalidParams", "cid")
          ELSE [q EXCEPT !.pc = "parent"]]
  /\ UNCHANGED <<store, ro>>

\* add_attachment_to_content_by_cid: admin, and the test that denies, which
\* is on the content's author.
AddParentAllowed(user, authorId) ==
  LET admin == user.group = "editor" \/ user.group = "administrator"
  IN ~(user.uid # authorId /\ ~admin)

\* add_attachment_to_content_by_cid: the row of the content and the
\* ownership test.
AddParentContent(r) ==
  /\ reqs[r].pc = "parent"
  /\ reqs[r].op = "add_attachment_to_content_by_cid"
  /\ LET q == [reqs[r] EXCEPT !.stmts = Append(@, "content by slug")]
         content == get_content_by_slug(contents, q.slug)
     IN reqs' = [reqs EXCEPT ![r] =
          IF content = None THEN Finish(q, "InvalidParams", "slug")
          ELSE IF ~AddParentAllowed(q.user, contents[Unwrap(content)].authorId)
          THEN Finish(q, "PermissionDeny", "")
          ELSE [q EXCEPT !.pc = "save", !.content = Unwrap(content)]]
  /\ UNCHANGED <<store, ro>>

\* add_attachment_to_content_by_cid: db::modify_attachment_parent_by_cid
\* with the content's cid.
AddParentSave(r) ==
  /\ reqs[r].pc = "save"
  /\ reqs[r].op = "add_attachment_to_content_by_cid"
  /\ LET q == [reqs[r] EXCEPT !.stmts = Append(@, "update")]
     IN \E ok \in BOOLEAN :
          IF ok
          THEN /\ contents' = modify_attachment_parent_by_cid(contents, q.cid, q.content)
               /\ reqs' = [reqs EXCEPT ![r] = Finish(q, "Ok", "")]
          ELSE /\ contents' = contents
               /\ reqs' = [reqs EXCEPT ![r] = Finish(q, "DatabaseFailed", "")]
  /\ UNCHANGED <<users, rels, files, ro>>

BeginDeleteParent(r) ==
  /\ reqs[r].pc = "idle"
  /\ \E token \in ActorTokens, slug \in Slugs, cid \in Cids :
       reqs' = [reqs EXCEPT ![r] =
         [NewReq("delete_attachment_from_content_by_cid", "PMContributor", token) EXCEPT
            !.slug = slug, !.cid = cid]]
  /\ UNCHANGED <<store, ro>>

\* delete_attachment_from_content_by_cid: admin, and the two tests that deny.
DeleteParentAllowed(user, authorId) ==
  LET admin == user.group = "editor" \/ user.group = "administrator"
  IN ~(user.uid # authorId /\ ~admin)

\* delete_attachment_from_content_by_cid: the row of the attachment and the
\* test on its author.
DeleteParentFetch(r) ==
  /\ reqs[r].pc = "handler"
  /\ reqs[r].op = "delete_attachment_from_content_by_cid"
  /\ LET q == [reqs[r] EXCEPT !.stmts = Append(@, "content"),
                               !.author = AuthorOf(contents, reqs[r].cid)]
         attachment == get_content_by_cid(contents, q.cid)
     IN reqs' = [reqs EXCEPT ![r] =
          IF attachment = None THEN Finish(q, "InvalidParams", "cid")
          ELSE IF ~DeleteParentAllowed(q.user, q.author) THEN Finish(q, "PermissionDeny", "")
          ELSE [q EXCEPT !.pc = "parent"]]
  /\ UNCHANGED <<store, ro>>

\* delete_attachment_from_content_by_cid: the row of the content and the
\* test on its author.
DeleteParentContent(r) ==
  /\ reqs[r].pc = "parent"
  /\ reqs[r].op = "delete_attachment_from_content_by_cid"
  /\ LET q == [reqs[r] EXCEPT !.stmts = Append(@, "content by slug")]
         content == get_content_by_slug(contents, q.slug)
     IN reqs' = [reqs EXCEPT ![r] =
          IF content = None THEN Finish(q, "InvalidParams", "slug")
          ELSE IF ~DeleteParentAllowed(q.user, contents[Unwrap(content)].authorId)
          THEN Finish(q, "PermissionDeny", "")
          ELSE [q EXCEPT !.pc = "save", !.content = Unwrap(content)]]
  /\ UNCHANGED <<store, ro>>

\* delete_attachment_from_content_by_cid:
\* db::modify_attachment_parent_by_cid with parent 0.
DeleteParentSave(r) ==
  /\ reqs[r].pc = "save"
  /\ reqs[r].op = "delete_attachment_from_content_by_cid"
  /\ LET q == [reqs[r] EXCEPT !.stmts = Append(@, "update")]
     IN \E ok \in BOOLEAN :
          IF ok
          THEN /\ contents' = modify_attachment_parent_by_cid(contents, q.cid, 0)
               /\ reqs' = [reqs EXCEPT ![r] = Finish(q, "Ok", "")]
          ELSE /\ contents' = contents
               /\ reqs' = [reqs EXCEPT ![r] = Finish(q, "DatabaseFailed", "")]
  /\ UNCHANGED <<users, rels, files, ro>>

NextParent ==
  \E r \in Solo :
    \/ BeginAddParent(r) \/ AddParentFetch(r) \/ AddParentContent(r) \/ AddParentSave(r)
    \/ BeginDeleteParent(r) \/ DeleteParentFetch(r) \/ DeleteParentContent(r)
    \/ DeleteParentSave(r)
    \/ Extract(r) \/ Retire(r)

\* The attaching and detaching of attachments.
SpecParent == InitAttach /\ [][NextParent]_vars

\* Requests to the handlers of one attachment, in flight together and one
\* of each request slot.
NextAttachPair ==
  \E r \in Reqs :
    \/ BeginGetAttachment(r) \/ GetAttachmentByCid(r)
    \/ BeginModifyAttachment(r) \/ ModifyAttachmentFetch(r) \/ ModifyAttachmentUnlink(r)
    \/ ModifyAttachmentWrite(r) \/ ModifyAttachmentSave(r)
    \/ BeginDeleteAttachment(r) \/ DeleteAttachmentFetch(r) \/ DeleteAttachmentUnlink(r)
    \/ DeleteAttachmentRow(r)
    \/ Extract(r)

SpecAttachPair == InitAttach /\ [][NextAttachPair]_vars

\* Pages and page sizes that validation accepts, up to ones whose offset
\* does not fit a u32.
WidePages == {1, MaxPage, HalfWord + 1}

WidePageSizes == {1, MaxPage, HalfWord}

BeginListUsersWide(r) ==
  /\ reqs[r].pc = "idle"
  /\ \E token \in ActorTokens, page \in WidePages, page_size \in WidePageSizes :
       reqs' = [reqs EXCEPT ![r] =
         [NewReq("list_users", "PMAdministrator", token) EXCEPT
            !.page = Some(page), !.page_size = Some(page_size)]]
  /\ UNCHANGED <<store, ro>>

BeginListAttachmentsWide(r) ==
  /\ reqs[r].pc = "idle"
  /\ \E token \in ActorTokens, page \in WidePages, page_size \in WidePageSizes,
        private \in {None, Some(TRUE)} :
       reqs' = [reqs EXCEPT ![r] =
         [NewReq("list_attachments", "PMContributor", token) EXCEPT
            !.page = Some(page), !.page_size = Some(page_size), !.private = private]]
  /\ UNCHANGED <<store, ro>>

\* The first user is an administrator, the others are contributors.
InitPaging ==
  /\ users = [u \in Uids |->
       [group |-> IF u = 1 THEN "administrator" ELSE "contributor", name |-> NameList[u]]]
  /\ InitAttachments
  /\ reqs = [r \in Reqs |-> IdleReq]
  /\ ro = FALSE

NextPaging ==
  \E r \in Solo :
    \/ BeginListUsersWide(r) \/ ListUsersCount(r) \/ ListUsersFetch(r)
    \/ BeginListAttachmentsWide(r) \/ ListAttachmentsCount(r) \/ ListAttachmentsFetch(r)
    \/ Extract(r) \/ Retire(r)

\* The two paged listings, over pages of the whole u32 range.
SpecPaging == InitPaging /\ [][NextPaging]_vars

\* ------------------------------------------------------------ posts

\* Highest meta id of typecho_metas.
MaxMid == 2

Mids == 1..MaxMid

\* typecho_metas, which no handler writes: the odd mids are categories, the
\* even ones tags.
MetaType(mid) == IF mid % 2 = 1 THEN "category" ELSE "tag"

PostRows(table) == {c \in ContentRows(table) : table[c].type = "post"}

\* SELECT EXISTS (SELECT 1 FROM typecho_contents WHERE slug == ?1)
SlugExists(table, slug) == \E c \in ContentRows(table) : table[c].slug = slug

\* #[sea_orm(unique)] on slug: whether the unique index admits one more row
\* of this slug.
SlugIndexAdmitsAny(table, slug) == TRUE

SlugIndexAdmits(table, slug) == ~\E c \in ContentRows(table) : table[c].slug = slug

NextCid(table) ==
  IF ContentRows(table) = {} THEN 1
  ELSE 1 + (CHOOSE c \in ContentRows(table) : \A d \in ContentRows(table) : d <= c)

\* The slugs create_post is asked for: the one the row of the highest cid
\* has, and one no row has.
CreateSlugs == {SlugList[1], SlugList[MaxCid + 1]}

BeginCreatePost(r) ==
  /\ reqs[r].pc = "idle"
  /\ \E token \in ActorTokens, slug \in CreateSlugs :
       reqs' = [reqs EXCEPT ![r] =
         [NewReq("create_post", "PMContributor", token) EXCEPT !.slug = slug]]
  /\ UNCHANGED <<store, ro>>

\* create_post: the EXISTS query, whose failure counts as false.
CreatePostExists(r) ==
  /\ reqs[r].pc = "handler"
  /\ reqs[r].op = "create_post"
  /\ \E ok \in BOOLEAN :
       LET q == [reqs[r] EXCEPT !.stmts = Append(@, "exists")]
           exist == ok /\ SlugExists(contents, q.slug)
       IN reqs' = [reqs EXCEPT ![r] =
            IF exist THEN Finish(q, "AlreadyExist", "slug")
            ELSE [q EXCEPT !.pc = "insert"]]
  /\ UNCHANGED <<store, ro>>

\* create_post: the INSERT; any failure of it is answered AlreadyExist("slug").
CreatePostInsert(r) ==
  /\ reqs[r].pc = "insert"
  /\ reqs[r].op = "create_post"
  /\ LET q == [reqs[r] EXCEPT !.stmts = Append(@, "insert")]
         cid == NextCid(contents)
     IN \E ok \in BOOLEAN :
          IF ok /\ SlugIndexAdmits(contents, q.slug)
          THEN /\ cid <= MaxCid
               /\ contents' = [contents EXCEPT ![cid] =
                    [type |-> "post", authorId |-> q.user.uid, parent |-> 0,
                     slug |-> q.slug, path |-> 0]]
               /\ reqs' = [reqs EXCEPT ![r] = Finish([q EXCEPT !.out = <<cid>>], "Ok", "")]
          ELSE /\ contents' = contents
               /\ reqs' = [reqs EXCEPT ![r] = Finish(q, "AlreadyExist", "slug")]
  /\ UNCHANGED <<users, rels, files, ro>>

\* list_posts: match q.order_by.as_str() { ... _ => "cid" }
PostOrderSql(key) ==
  CASE key = "-cid" -> "cid DESC"
    [] key = "slug" -> "slug"
    [] key = "-slug" -> "slug DESC"
    [] OTHER -> "cid"

\* The CTE categories_json (tags_json): one row for each post that the inner
\* joins with typecho_relationships and typecho_metas give a meta of the type.
MetaJson(table, rel, type) ==
  {c \in PostRows(table) : \E m \in Mids : <<c, m>> \in rel /\ MetaType(m) = type}

\* FROM typecho_contents JOIN categories_json ... JOIN tags_json ...
\* WHERE type == "post" GROUP BY typecho_contents.cid
PostsWithMeta(table, rel) ==
  PostRows(table) \cap MetaJson(table, rel, "category") \cap MetaJson(table, rel, "tag")

\* SELECT COUNT(*) FROM typecho_contents WHERE type == post: post, unquoted,
\* names a column the table does not have, so the statement fails and
\* unwrap_or(0) answers 0.
PostsCount(table) == 0

BeginListPosts(r) ==
  /\ reqs[r].pc = "idle"
  /\ \E page \in 1..MaxPage, page_size \in 1..MaxPage, order_by \in ContentOrderKeys,
        with_meta \in {None, Some(TRUE), Some(FALSE)} :
       reqs' = [reqs EXCEPT ![r] =
         [NewReq("list_posts", "none", IdleReq.token) EXCEPT
            !.pc = "handler", !.page = Some(page), !.page_size = Some(page_size),
            !.order_by = Some(order_by), !.with_meta = with_meta]]
  /\ UNCHANGED <<store, ro>>

\* list_posts up to its second statement: the count query and the match on
\* the order key.
ListPostsCount(r) ==
  /\ reqs[r].pc = "handler"
  /\ reqs[r].op = "list_posts"
  /\ LET q == reqs[r]
     IN reqs' = [reqs EXCEPT ![r] =
          [q EXCEPT !.stmts = Append(@, "count"), !.all_count = PostsCount(contents),
                    !.sql_order = PostOrderSql(Unwrap(q.order_by)), !.pc = "list"]]
  /\ UNCHANGED <<store, ro>>

\* list_posts: the list query, with the meta joins when with_meta is true; a
\* failed query is answered with an empty page.
ListPostsFetch(r) ==
  /\ reqs[r].pc = "list"
  /\ reqs[r].op = "list_posts"
  /\ \E ok \in BOOLEAN :
       LET q == reqs[r]
           ids == IF unwrap_or(q.with_meta, FALSE) THEN PostsWithMeta(contents, rels)
                  ELSE PostRows(contents)
           rows == LimitOffset(SelectContents(contents, ids, q.sql_order), Unwrap(q.page_size),
                               Offset(Unwrap(q.page), Unwrap(q.page_size)))
       IN reqs' = [reqs EXCEPT ![r] =
            IF ok THEN Finish([q EXCEPT !.stmts = Append(@, "list"), !.out = rows], "Ok", "")
            ELSE Finish([q EXCEPT !.stmts = Append(@, "list:err")], "Ok", "")]
  /\ UNCHANGED <<store, ro>>

BeginGetPost(r) ==
  /\ reqs[r].pc = "idle"
  /\ \E slug \in Slugs, with_meta \in {None, Some(TRUE), Some(FALSE)} :
       reqs' = [reqs EXCEPT ![r] =
         [NewReq("get_post_by_slug", "none", IdleReq.token) EXCEPT
            !.pc = "handler", !.slug = slug, !.with_meta = with_meta]]
  /\ UNCHANGED <<store, ro>>

\* get_post_by_slug: fetch_one of the post, with the meta joins when
\* with_meta is true; whatever is not Ok falls through to PermissionDeny.
GetPostBySlug(r) ==
  /\ reqs[r].pc = "handler"
  /\ reqs[r].op = "get_post_by_slug"
  /\ \E ok \in BOOLEAN :
       LET q == reqs[r]
           ids == IF unwrap_or(q.with_meta, FALSE) THEN PostsWithMeta(contents, rels)
                  ELSE PostRows(contents)
           found == {c \in ids : contents[c].slug = q.slug}
       IN reqs' = [reqs EXCEPT ![r] =
            IF ok /\ found # {}
            THEN Finish([q EXCEPT !.stmts = Append(@, "post"),
                                  !.out = <<CHOOSE c \in found : TRUE>>], "Ok", "")
            ELSE Finish([q EXCEPT !.stmts = Append(@, IF ok THEN "post" ELSE "post:err")],
                        "PermissionDeny", "")]
  /\ UNCHANGED <<store, ro>>

\* Every cid has no row, a post of the first user or an attachment of the
\* first user; slugs are unique; any of the posts has any of the metas.
InitPosts ==
  /\ \E type \in [Cids -> {"", "post", "attachment"}] :
       contents = [c \in Cids |->
         IF type[c] = "" THEN NoContent
         ELSE [type |-> type[c], authorId |-> 1, parent |-> 0,
               slug |-> SlugList[MaxCid + 1 - c],
               path |-> IF type[c] = "attachment" THEN c ELSE 0]]
  /\ rels \in SUBSET {cm \in Cids \X Mids : contents[cm[1]].type = "post"}
  /\ files = {contents[c].path : c \in {d \in Cids : contents[d].type = "attachment"}}

InitPostsSpec ==
  /\ InitActor
  /\ InitPosts
  /\ reqs = [r \in Reqs |-> IdleReq]
  /\ ro = FALSE

NextPosts ==
  \E r \in Solo :
    \/ BeginCreatePost(r) \/ CreatePostExists(r) \/ CreatePostInsert(r)
    \/ BeginListPosts(r) \/ ListPostsCount(r) \/ ListPostsFetch(r)
    \/ BeginGetPost(r) \/ GetPostBySlug(r)
    \/ Extract(r) \/ Retire(r)

SpecPosts == InitPostsSpec /\ [][NextPosts]_vars

\* Contributors only, and posts without metas, for the requests that only
\* create posts.
InitPostRace ==
  /\ users = [u \in Uids |-> [group |-> "contributor", name |-> NameList[u]]]
  /\ \E type \in [Cids -> {"", "post"}] :
       contents = [c \in Cids |->
         IF type[c] = "" THEN NoContent
         ELSE [type |-> "post", authorId |-> 1, parent |-> 0,
               slug |-> SlugList[MaxCid + 1 - c], path |-> 0]]
  /\ rels = {}
  /\ files = {}
  /\ reqs = [r \in Reqs |-> IdleReq]
  /\ ro = FALSE

\* Concurrent create_post requests, one of each request slot.
NextPostRace ==
  \E r \in Reqs :
    \/ BeginCreatePost(r) \/ CreatePostExists(r) \/ CreatePostInsert(r)
    \/ Extract(r)

SpecPostRace == InitPostRace /\ [][NextPostRace]_vars

\* ------------------------------------------------------------ C1

\* The fixed order subscriber < contributor < editor < administrator; a group
\* that is none of the four has no tier.
TierOf(group) ==
  CASE group = "subscriber" -> 0
    [] group = "contributor" -> 1
    [] group = "editor" -> 2
    [] group = "administrator" -> 3
    [] OTHER -> -1

GateTier(gate) ==
  CASE gate = "PMSubscriber" -> 0
    [] gate = "PMContributor" -> 1
    [] gate = "PMEditor" -> 2
    [] gate = "PMAdministrator" -> 3

\* C1: a gate accepts the resolved user iff the user's tier is at least the
\* gate's tier, and a user whose group is none of the four strings is
\* rejected with PermissionDeny by every gate.
C1_GateIffTier ==
  \A r \in Solo :
    LET q == reqs[r] IN
    (q.op = "guarded" /\ q.pc = "done" /\ q.user # NoUser) =>
      /\ (q.result = "Ok") <=> (TierOf(q.user.group) >= GateTier(q.gate))
      /\ (q.result # "Ok") => q.result = "PermissionDeny"
      /\ (q.user.group \notin Groups) => q.result = "PermissionDeny"

\* C1 witness: a contributor was turned away by PMEditor.
C1_Witness ==
  \E r \in Solo :
    /\ reqs[r].pc = "done" /\ reqs[r].gate = "PMEditor"
    /\ reqs[r].user.group = "contributor" /\ reqs[r].result = "PermissionDeny"

\* ------------------------------------------------------------ C5

\* The request has resolved its user and that user has passed its gate.
PastGate(q) ==
  q.user # NoUser /\ GateAccepts(q.gate, q.user.group) /\ q.pc \notin {"idle", "extract"}

\* C5: a Subscriber asking get_user_by_id for another uid gets PermissionDeny
\* and no query for the target user is issued; asking for the own uid returns
\* the own record; only an administrator reads another user's record.
C5_GetUserOwnOrAdmin ==
  \A r \in Solo :
    LET q == reqs[r] IN
    (q.op = "get_user_by_id" /\ q.pc = "done" /\ PastGate(q)) =>
      /\ (q.user.group = "subscriber" /\ q.uid # q.user.uid) =>
           (q.result = "PermissionDeny" /\ q.stmts = <<"identity">>)
      /\ (q.uid = q.user.uid) =>
           (q.result = "Ok" /\ q.out = <<q.user.uid>> /\ q.stmts = <<"identity">>)
      /\ (q.uid # q.user.uid /\ ("user" \in SeqToSet(q.stmts) \/ q.result = "Ok")) =>
           q.user.group = "administrator"

\* C5 witness: a subscriber asked for another user's record and was denied.
C5_Witness ==
  \E r \in Solo :
    /\ reqs[r].op = "get_user_by_id" /\ reqs[r].pc = "done"
    /\ reqs[r].user.group = "subscriber" /\ reqs[r].uid # reqs[r].user.uid
    /\ reqs[r].result = "PermissionDeny"

\* ------------------------------------------------------------ C6

\* A modify_user_by_id request of a non-administrator that is past the
\* condition of the handler.
C6_NonAdminModify(q) ==
  q.op = "modify_user_by_id" /\ PastGate(q) /\ q.user.group # "administrator"

C6_State ==
  \A r \in Solo :
    LET q == reqs[r] IN
    /\ (C6_NonAdminModify(q) /\ (q.pc = "update" \/ (q.pc = "done" /\ q.result # "PermissionDeny"))) =>
         (q.uid = q.user.uid /\ q.group = q.user.group)
    /\ (C6_NonAdminModify(q) /\ q.pc = "done" /\ (q.uid # q.user.uid \/ q.group # q.user.group)) =>
         (q.result = "PermissionDeny" /\ q.stmts = <<"identity">>)

C6_Step ==
  /\ \A r \in Solo :
       (C6_NonAdminModify(reqs'[r]) /\ reqs[r].pc # "done" /\ reqs'[r].pc = "done"
          /\ reqs'[r].result = "PermissionDeny") => users' = users
  /\ \A u \in Uids :
       (users[u] = NoUserRow /\ users'[u] # NoUserRow) => users'[u].group = "subscriber"

\* C6: a modify_user_by_id request of a non-administrator is accepted only
\* for the actor's own uid with the requested group equal to the group of the
\* actor's resolved identity; every other such request ends with
\* PermissionDeny, having issued no statement and changed no row.  A row that
\* appears in the users table has the group subscriber.
C6_NoSelfPromotion == [][C6_State' /\ C6_Step]_vars

\* C6 witness: a subscriber asked to become administrator of the own account
\* and was denied.
C6_Witness ==
  \E r \in Solo :
    /\ reqs[r].op = "modify_user_by_id" /\ reqs[r].pc = "done"
    /\ reqs[r].user.group = "subscriber" /\ reqs[r].uid = reqs[r].user.uid
    /\ reqs[r].group = "administrator" /\ reqs[r].result = "PermissionDeny"

\* ------------------------------------------------------------ C2

C2_PerObject == {"get_attachment_by_cid", "modify_attachment_by_cid", "delete_attachment_by_cid"}

\* C2: once the gate is passed and the attachment is found, each of
\* get_attachment_by_cid, modify_attachment_by_cid and
\* delete_attachment_by_cid goes on iff the actor is the attachment's author
\* or is editor or administrator, and ends with PermissionDeny otherwise.
C2_OwnerOrEditor ==
  \A r \in Solo :
    LET q == reqs[r]
        may == q.user.uid = q.author \/ q.user.group \in {"editor", "administrator"}
    IN (q.op \in C2_PerObject /\ PastGate(q) /\ q.author # 0) =>
         /\ ~may => (q.pc = "done" /\ q.result = "PermissionDeny")
         /\ may => q.result # "PermissionDeny"

\* C2 witness: a contributor asked to delete another user's attachment and
\* was denied.
C2_Witness ==
  \E r \in Solo :
    /\ reqs[r].op = "delete_attachment_by_cid" /\ reqs[r].pc = "done"
    /\ reqs[r].user.group = "contributor" /\ reqs[r].author \notin {0, reqs[r].user.uid}
    /\ reqs[r].result = "PermissionDeny"

\* ------------------------------------------------------------ C3

C3_ListOps == {"list_users", "list_attachments", "list_posts"}

\* The keys the match of each list handler names, and the fragments its arms
\* give.
C3_Whitelist(op) ==
  IF op = "list_users" THEN {"uid", "-uid", "name", "-name", "mail", "-mail"}
  ELSE {"cid", "-cid", "slug", "-slug"}

C3_Fragments(op) ==
  IF op = "list_users" THEN {"uid", "uid DESC", "name", "name DESC", "mail", "mail DESC"}
  ELSE {"cid", "cid DESC", "slug", "slug DESC"}

\* The handler of a list request has run to its end.
C3_Handled(q) ==
  q.op \in C3_ListOps /\ q.pc = "done" /\ (q.gate = "none" \/ PastGate(q))

\* C3: a list request whose order key is not in the resource's whitelist
\* fails with InvalidParams carrying the key, and the ORDER BY fragment of
\* the statement is always a whitelisted one.
C3_OrderKeyRejected ==
  \A r \in Solo :
    LET q == reqs[r] IN
    C3_Handled(q) =>
      /\ (IsSome(q.order_by) /\ Unwrap(q.order_by) \notin C3_Whitelist(q.op)) =>
           (q.result = "InvalidParams" /\ q.field = Unwrap(q.order_by))
      /\ q.sql_order # NoFragment => q.sql_order \in C3_Fragments(q.op)

\* ------------------------------------------------------------ C4

\* C4: a list request whose order key is not in the whitelist is rejected
\* having issued no statement beyond the identity lookup.
C4_RejectedBeforeStore ==
  \A r \in Solo :
    LET q == reqs[r] IN
    (C3_Handled(q) /\ IsSome(q.order_by) /\ Unwrap(q.order_by) \notin C3_Whitelist(q.op)) =>
      /\ q.result \notin {"Ok", ""}
      /\ SeqToSet(q.stmts) \subseteq {"identity"}

\* ------------------------------------------------------------ C7

C7_OneRowPerSlug ==
  \A g \in Slugs : Cardinality({c \in ContentRows(contents) : contents[c].slug = g}) <= 1

C7_Step ==
  \A r \in Reqs :
    LET q == reqs[r]
        n == reqs'[r]
    IN (q.op = "create_post" /\ q.pc \in {"handler", "insert"} /\ n # q) =>
         /\ SlugExists(contents, q.slug) =>
              /\ contents' = contents
              /\ n.pc = "done" => (n.result = "AlreadyExist" /\ n.field = "slug")
         /\ n.pc = "done" =>
              \/ n.result = "AlreadyExist" /\ n.field = "slug" /\ contents' = contents
              \/ /\ n.result = "Ok"
                 /\ ~SlugExists(contents, q.slug)
                 /\ \E c \in Cids : /\ contents[c] = NoContent
                                    /\ contents'[c].slug = q.slug
                                    /\ \A d \in Cids \ {c} : contents'[d] = contents[d]

\* C7: a create_post whose slug a row already has inserts nothing and answers
\* AlreadyExist("slug"); however concurrent create_post requests interleave,
\* no slug has more than one row, and a request that did not insert its row
\* answers AlreadyExist("slug").
C7_SlugUnique == [][C7_OneRowPerSlug' /\ C7_Step]_vars

\* C7 witness: two requests for the same slug both passed the EXISTS query
\* and both ran the INSERT; one inserted, the other answered AlreadyExist.
C7_Witness ==
  \E r, s \in Reqs :
    /\ r # s
    /\ reqs[r].op = "create_post" /\ reqs[s].op = "create_post"
    /\ reqs[r].slug = reqs[s].slug
    /\ reqs[r].stmts = <<"identity", "exists", "insert">> /\ reqs[r].result = "Ok"
    /\ reqs[s].stmts = <<"identity", "exists", "insert">> /\ reqs[s].result = "AlreadyExist"
    /\ C7_OneRowPerSlug

\* ------------------------------------------------------------ C8

\* The attachments of one user.
OwnAttachments(uid) ==
  {c \in ContentRows(contents) : contents[c].type = "attachment" /\ contents[c].authorId = uid}

\* C8: a Subscriber's list_attachments with private=true succeeds with only
\* the Subscriber's own attachments, and all_count counts only those.
C8_SubscriberListsOwn ==
  \A r \in Solo :
    LET q == reqs[r] IN
    (q.op = "list_attachments" /\ q.pc = "done" /\ q.user.group = "subscriber"
       /\ q.private = Some(TRUE)
       /\ AttachmentsQueryValid(q.page, q.page_size, q.order_by)
       /\ unwrap_or(q.order_by, "-cid") \in C3_Whitelist(q.op)
       /\ q.result # "DatabaseFailed") =>
      /\ q.result = "Ok"
      /\ SeqToSet(q.out) \subseteq OwnAttachments(q.user.uid)
      /\ q.all_count = Cardinality(OwnAttachments(q.user.uid))

\* ------------------------------------------------------------ C9

\* C9: list_attachments returns an attachment of another user only when the
\* request has private=true and the actor is editor or administrator; in
\* every other case the clause of both queries names the actor's uid, the
\* page holds only the actor's attachments and all_count counts only those.
C9_PrivateScope ==
  \A r \in Solo :
    LET q == reqs[r]
        elevated == q.private = Some(TRUE) /\ q.user.group \in {"editor", "administrator"}
    IN (q.op = "list_attachments" /\ "count" \in SeqToSet(q.stmts)) =>
         /\ (\E i \in DOMAIN q.out : contents[q.out[i]].authorId # q.user.uid) => elevated
         /\ ~elevated =>
              /\ q.scope = Some(q.user.uid)
              /\ SeqToSet(q.out) \subseteq OwnAttachments(q.user.uid)
              /\ q.all_count = Cardinality(OwnAttachments(q.user.uid))
         /\ elevated => q.scope = None

\* C9 witness: a contributor listed with private=true while another user
\* had an attachment, and the page left it out.
C9_Witness ==
  \E r \in Solo :
    /\ reqs[r].op = "list_attachments" /\ reqs[r].pc = "done" /\ reqs[r].result = "Ok"
    /\ reqs[r].user.group = "contributor" /\ reqs[r].private = Some(TRUE)
    /\ reqs[r].out # <<>>
    /\ \E c \in ContentRows(contents) :
         /\ contents[c].type = "attachment" /\ contents[c].authorId # reqs[r].user.uid
         /\ c \notin SeqToSet(reqs[r].out)

\* ------------------------------------------------------------ C10

\* The page of all posts that a list_posts request asks for.
C10_PageOfPosts(q) ==
  LimitOffset(SelectContents(contents, PostRows(contents), q.sql_order), Unwrap(q.page_size),
              Offset(Unwrap(q.page), Unwrap(q.page_size)))

\* C10: with with_meta=true every post of the page appears exactly once,
\* also a post without a category or without a tag, and get_post_by_slug
\* finds such a post.
C10_MetaKeepsChildless ==
  \A r \in Solo :
    LET q == reqs[r] IN
    /\ (q.op = "list_posts" /\ q.pc = "done" /\ q.with_meta = Some(TRUE)
          /\ "list" \in SeqToSet(q.stmts)) =>
         q.out = C10_PageOfPosts(q)
    /\ (q.op = "get_post_by_slug" /\ q.pc = "done" /\ q.with_meta = Some(TRUE)
          /\ "post" \in SeqToSet(q.stmts)
          /\ \E c \in PostRows(contents) : contents[c].slug = q.slug) =>
         (q.result = "Ok" /\ contents[q.out[1]].slug = q.slug)

\* ------------------------------------------------------------ C11

\* The rows a listing's query selects, in the order the request asked for.
C11_Selected(q) ==
  IF q.op = "list_users" THEN SelectUsers(users, q.sql_order)
  ELSE SelectContents(contents, ScopedRows(contents, q.scope, "attachment"), q.sql_order)

\* The page that (page-1)*page_size, taken without wrap-around, gives: an
\* offset that does not fit a u32 is past every row.
C11_ExactPage(q) ==
  LET page == unwrap_or(q.page, DefaultPage)
      page_size == unwrap_or(q.page_size, DefaultPageSize)
      offset == Offset(page, page_size)
  IN IF offset.overflow THEN <<>> ELSE LimitOffset(C11_Selected(q), page_size, offset)

\* C11: for page >= 1 and page_size >= 1 the offset of list_users and
\* list_attachments is (page-1)*page_size without wrap-around: no request
\* panics on it, and a request answered Ok returns the rows that remain from
\* that offset, at most page_size of them.
C11_OffsetNoWrap ==
  \A r \in Solo :
    LET q == reqs[r] IN
    (q.op \in {"list_users", "list_attachments"} /\ q.pc = "done") =>
      /\ q.result # "Panic"
      /\ q.result = "Ok" =>
           /\ q.out = C11_ExactPage(q)
           /\ Len(q.out) <= unwrap_or(q.page_size, DefaultPageSize)

\* ------------------------------------------------------------ C12

\* The number of rows that satisfy the predicate of a listing's query.
C12_Counted(q) ==
  CASE q.op = "list_users" -> Cardinality(UserRows(users))
    [] q.op = "list_attachments" -> Cardinality(ScopedRows(contents, q.scope, "attachment"))
    [] OTHER -> Cardinality(PostRows(contents))

\* C12: a list request answered Ok reports as all_count the number of rows
\* that satisfy the predicate of its list query, whatever page, page_size
\* and with_meta are, so that the rows of the page are counted in it.
C12_AllCountMatches ==
  \A r \in Solo :
    LET q == reqs[r] IN
    (C3_Handled(q) /\ q.result = "Ok") =>
      /\ q.all_count = C12_Counted(q)
      /\ Len(q.out) <= q.all_count

\* ------------------------------------------------------------ C13

\* Two requests of one actor to one per-object operation, both past the gate
\* and the fetch of the row.
C13_SameRequest(q, p) ==
  /\ q.op \in C2_PerObject /\ p.op = q.op
  /\ q.pc = "done" /\ p.pc = "done"
  /\ PastGate(q) /\ PastGate(p)
  /\ q.user = p.user
  /\ "content" \in SeqToSet(q.stmts) /\ "content" \in SeqToSet(p.stmts)

\* C13: an actor below editor gets the same answer from a per-object
\* operation for a cid that has no row and for a cid whose row is another
\* user's.
C13_NoExistenceLeak ==
  \A r, s \in Reqs :
    LET q == reqs[r]
        p == reqs[s]
    IN (C13_SameRequest(q, p) /\ q.user.group \notin {"editor", "administrator"}
          /\ q.author = 0 /\ p.author \notin {0, p.user.uid}) =>
         (q.result = p.result /\ q.field = p.field)

\* ------------------------------------------------------------ C14

\* C14: a request that ends with PermissionDeny has accessed the store for
\* nothing but the identity lookup.
C14_DenyBeforeStore ==
  \A r \in Solo :
    LET q == reqs[r] IN
    (q.pc = "done" /\ q.result = "PermissionDeny") => q.stmts = <<"identity">>

\* ------------------------------------------------------------ C15

\* The statements of a request that failed for a reason other than a
\* uniqueness violation.
C15_Failed(q) == {"list:err", "post:err"} \cap SeqToSet(q.stmts)

\* C15: a request one of whose statements failed for a reason other than a
\* uniqueness violation ends with DatabaseFailed.
C15_FailureIsDatabaseFailed ==
  \A r \in Solo :
    LET q == reqs[r] IN
    (q.pc = "done" /\ C15_Failed(q) # {}) => q.result = "DatabaseFailed"

\* ------------------------------------------------------------ C16

\* C16: get_user_by_id of an administrator for a uid that has no row ends
\* with NotFound("uid").
C16_MissingIsNotFound ==
  \A r \in Solo :
    LET q == reqs[r] IN
    (q.op = "get_user_by_id" /\ q.pc = "done" /\ PastGate(q)
       /\ q.user.group = "administrator" /\ q.uid \notin UserRows(users)) =>
      (q.result = "NotFound" /\ q.field = "uid")

\* ------------------------------------------------------------ C17

\* C17: the stored group of a user changes only in the UPDATE of a
\* modify_user_by_id request whose actor is stored as administrator when the
\* UPDATE is applied.
C17_GroupChangedByAdmin ==
  [][\A u \in Uids :
       (users[u] # NoUserRow /\ users'[u].group # users[u].group) =>
         \E r \in Reqs :
           /\ reqs[r].op = "modify_user_by_id" /\ reqs[r].pc = "update"
           /\ reqs'[r].pc = "done" /\ reqs[r].uid = u
           /\ users[reqs[r].user.uid].group = "administrator"]_vars

\* ------------------------------------------------------------ C18

C18_ParentOps ==
  {"add_attachment_to_content_by_cid", "delete_attachment_from_content_by_cid"}

\* C18: the parent of a row changes only in the last step of a request to
\* one of the two parent handlers whose actor is the row's author or is
\* editor or administrator.
C18_ParentChangedByOwner ==
  [][\A c \in Cids :
       (contents[c] # NoContent /\ contents'[c].parent # contents[c].parent) =>
         \E r \in Solo :
           /\ reqs[r].op \in C18_ParentOps /\ reqs[r].pc = "save" /\ reqs[r].cid = c
           /\ \/ reqs[r].user.uid = contents[c].authorId
              \/ reqs[r].user.group \in {"editor", "administrator"}]_vars

\* ------------------------------------------------------------ C19

\* The files the attachment records name.
C19_RecordFiles ==
  {contents[c].path : c \in {d \in ContentRows(contents) : contents[d].type = "attachment"}}

\* C19: when no request is under way, every attachment record names a file
\* that is stored and every stored file is named by a record.
C19_FilesMatchRecords ==
  (\A r \in Solo : reqs[r].pc \in {"idle", "done"}) => files = C19_RecordFiles

\* ------------------------------------------------- the attachments router

Methods == {"GET", "HEAD", "POST", "DELETE"}

ListRoute == "/api/attachments/"

CidRoute == "/api/attachments/:cid"

RoutePaths == {ListRoute, CidRoute}

\* The method filters of axum::routing: get admits HEAD as well.
get(handler) == [methods |-> {"GET", "HEAD"}, handler |-> handler]

post(handler) == [methods |-> {"POST"}, handler |-> handler]

delete(handler) == [methods |-> {"DELETE"}, handler |-> handler]

route(path, method_router) ==
  [path |-> path, methods |-> method_router.methods, handler |-> method_router.handler]

\* A router that registers every route whatever its argument.
attachments_routersAll(mode) ==
  {route(ListRoute, get("list_attachments")),
   route(ListRoute, post("create_attachment")),
   route(CidRoute, delete("delete_attachment_by_cid"))}

\* attachments_routers: the list route, and unless ro the create and the
\* delete routes.
attachments_routers(mode) ==
  LET attachments_route == {route(ListRoute, get("list_attachments"))}
  IN IF ~mode
     THEN attachments_route
            \cup {route(ListRoute, post("create_attachment")),
                  route(CidRoute, delete("delete_attachment_by_cid"))}
     ELSE attachments_route

\* The callers of the router: nobody, the first user and the last.
RouterTokens == {t \in ActorTokens : t.kind = "absent" \/ t.sub \in Authors}

\* The router takes a request: the handler of the route whose path and
\* method match, 405 when only the path matches, 404 when nothing does.
Serve(r) ==
  /\ reqs[r].pc = "idle"
  /\ \E method \in Methods, path \in RoutePaths, token \in RouterTokens,
        cid \in Cids, upload \in BOOLEAN :
       LET router == attachments_routers(ro)
           matched == {e \in router : e.path = path /\ method \in e.methods}
           handler == (CHOOSE e \in matched : TRUE).handler
           asked == [IdleReq EXCEPT !.method = method, !.route = path]
       IN reqs' = [reqs EXCEPT ![r] =
            IF matched # {}
            THEN [asked EXCEPT !.op = handler, !.gate = "PMContributor",
                               !.token = token, !.pc = "extract",
                               !.cid = IF path = CidRoute THEN cid ELSE 0,
                               !.upload = (handler = "create_attachment" /\ upload)]
            ELSE IF \E e \in router : e.path = path
            THEN Finish([asked EXCEPT !.op = "unrouted"], "405", "")
            ELSE Finish([asked EXCEPT !.op = "unrouted"], "404", "")]
  /\ UNCHANGED <<store, ro>>

\* create_attachment up to the insert: the multipart field, whose absence or
\* ill form is answered InvalidParams("file"), and stream_to_file under a
\* random name.
CreateAttachmentWrite(r) ==
  /\ reqs[r].pc = "handler"
  /\ reqs[r].op = "create_attachment"
  /\ LET q == reqs[r]
         w == [q EXCEPT !.stmts = Append(@, "stream_to_file")]
     IN IF ~q.upload
        THEN /\ files' = files
             /\ reqs' = [reqs EXCEPT ![r] = Finish(q, "InvalidParams", "file")]
        ELSE \E ok \in BOOLEAN :
               IF ok
               THEN \E name \in Paths \ (files \cup NamedPaths(contents)) :
                      /\ files' = files \cup {name}
                      /\ reqs' = [reqs EXCEPT ![r] = [w EXCEPT !.pc = "insert", !.path = name]]
               ELSE /\ files' = files
                    /\ reqs' = [reqs EXCEPT ![r] = Finish(w, "UploadFailed", "")]
  /\ UNCHANGED <<users, contents, rels, ro>>

FreeSlug(table) ==
  SlugList[CHOOSE i \in 1..Len(SlugList) :
    /\ SlugIndexAdmits(table, SlugList[i])
    /\ \A j \in 1..(i - 1) : ~SlugIndexAdmits(table, SlugList[j])]

\* create_attachment: db::create_attachment_with_params, the row owned by
\* the caller; its slug, which no handler of the router reads, is the first
\* one the unique index admits.
CreateAttachmentInsert(r) ==
  /\ reqs[r].pc = "insert"
  /\ reqs[r].op = "create_attachment"
  /\ LET q == [reqs[r] EXCEPT !.stmts = Append(@, "insert")]
         cid == NextCid(contents)
     IN \E ok \in BOOLEAN :
          IF ok
          THEN /\ cid <= MaxCid
               /\ contents' = [contents EXCEPT ![cid] =
                    [type |-> "attachment", authorId |-> q.user.uid, parent |-> 0,
                     slug |-> FreeSlug(contents), path |-> q.path]]
               /\ reqs' = [reqs EXCEPT ![r] = Finish([q EXCEPT !.out = <<cid>>], "Created", "")]
          ELSE /\ contents' = contents
               /\ reqs' = [reqs EXCEPT ![r] = Finish(q, "DatabaseFailed", "")]
  /\ UNCHANGED <<users, rels, files, ro>>

\* The router is built read-only or not, once, before any request; the first
\* user is an administrator and the others are contributors.
InitRouter ==
  /\ users = [u \in Uids |->
       [group |-> IF u = 1 THEN "administrator" ELSE "contributor", name |-> NameList[u]]]
  /\ InitAttachments
  /\ reqs = [r \in Reqs |-> IdleReq]
  /\ ro \in BOOLEAN

NextRouter ==
  \E r \in Solo :
    \/ Serve(r) \/ Extract(r)
    \/ ListAttachmentsCount(r) \/ ListAttachmentsFetch(r)
    \/ CreateAttachmentWrite(r) \/ CreateAttachmentInsert(r)
    \/ DeleteAttachmentFetch(r) \/ DeleteAttachmentUnlink(r) \/ DeleteAttachmentRow(r)
    \/ Retire(r)

SpecRouter == InitRouter /\ [][NextRouter]_vars

\* ---------------------------------------------------------------- C20

\* What the router made of a request it took: with ro only GET (and HEAD) of
\* the list path reach a handler, list_attachments; without ro POST of the
\* list path reaches create_attachment and DELETE of the cid path reaches
\* delete_attachment_by_cid as well, and nothing else reaches a handler.
C20_Routed ==
  \A r \in Reqs :
    LET q == reqs[r]
        toList == q.route = ListRoute /\ q.method \in {"GET", "HEAD"}
        toCreate == q.route = ListRoute /\ q.method = "POST"
        toDelete == q.route = CidRoute /\ q.method = "DELETE"
    IN q.route # "" =>
         /\ q.op = "list_attachments" <=> toList
         /\ q.op = "create_attachment" <=> (~ro /\ toCreate)
         /\ q.op = "delete_attachment_by_cid" <=> (~ro /\ toDelete)
         /\ q.op = "unrouted" <=> ~(toList \/ (~ro /\ (toCreate \/ toDelete)))

\* C20: a router built with ro = true serves only the GET list route, and no
\* step of any request through it changes an attachment record or a stored
\* file; built with ro = false it serves POST create and DELETE by cid as
\* well.
C20_ReadOnlyRouter ==
  [][/\ C20_Routed'
     /\ ro => (contents' = contents /\ files' = files)]_vars

\* A POST of the list path was refused by the read-only router while an
\* attachment and its file are stored.
C20_Refused ==
  /\ ro
  /\ \E c \in Cids : contents[c].type = "attachment" /\ contents[c].path \in files
  /\ \E r \in Reqs :
       /\ reqs[r].pc = "done"
       /\ reqs[r].method = "POST"
       /\ reqs[r].route = ListRoute
       /\ reqs[r].result = "405"

============================================================================
